---- MODULE Spec2Model ----
(***************************************************************************)
(* A model of the box utilities of ssd_pytorch (layers/box_utils.py) and   *)
(* of evaluate() (train.py): overlap computation, the matcher, greedy      *)
(* non-maximum suppression and the evaluation averages.                    *)
(*                                                                         *)
(* Numbers.  Coordinates are integers on a small grid (one grid step is    *)
(* half a prior cell, so that the halving in point_form is exact).  A      *)
(* quotient computed by the code (an IoU, a mean) is kept as the pair      *)
(* [n |-> numerator, d |-> denominator] of the division the code performs; *)
(* d = 0 is the floating point outcome of 0/0, NaN, for which every        *)
(* comparison is false.                                                    *)
(***************************************************************************)
EXTENDS Integers, Sequences, FiniteSets, TLC

(***************************************************************************)
(* Bounds of the model.                                                    *)
(***************************************************************************)
MaxGT == 2
NumSlots == 2
MaxCand == 3
MaxScore == 2
MaxTopK == 2
MaxImages == 2
MaxDet == 1
MaxEvalGT == 1
MaxWidth == 3

(***************************************************************************)
(* State: one group of variables per operation.                            *)
(***************************************************************************)
VARIABLES
    m_pc,                \* position in match()
    truths, labels, priors, threshold,   \* arguments of match()
    overlaps,            \* [num_gt, num_priors] jaccard matrix
    best_prior_overlap, best_prior_idx,  \* per ground truth
    best_truth_overlap, best_truth_idx,  \* per prior
    col_argmax,          \* best_truth_idx as overlaps.max(0) returned it
    j,                   \* loop variable of the forced-coverage loop
    matches, conf,       \* per prior
    visualize, idx,      \* arguments read at the end of match()
    loc_t, conf_t,       \* the caller's buffers, one slot per sample
    m_ret                \* what match() returned: <<overlaps, conf>>, or
                         \* <<>> for None

matchVars == <<m_pc, truths, labels, priors, threshold, overlaps,
               best_prior_overlap, best_prior_idx, best_truth_overlap,
               best_truth_idx, col_argmax, j, matches, conf, visualize, idx,
               loc_t, conf_t, m_ret>>

VARIABLES
    n_pc,            \* position in nms()
    boxes, scores,   \* the candidates and their scores
    overlap, top_k,  \* the IoU threshold and the cap
    keep, count,     \* the index buffer and the number of entries written
    n_idx,           \* idx: the remaining candidates, ascending by score
    n_pool,          \* idx as line 206 left it: the top_k candidates
    n_ret            \* what nms() returned: <<keep>> or <<keep, count>>

nmsVars == <<n_pc, boxes, scores, overlap, top_k, keep, count, n_idx, n_pool,
             n_ret>>

VARIABLES
    e_pc,                 \* position in evaluate()
    e_nimg,               \* detections.size(0)
    e_w, e_h,             \* img.size(3), img.size(2)
    e_threshold,          \* the confidence threshold
    e_i, e_j,             \* the image and class loop variables
    e_gt_boxes,           \* the current image's ground truth, per class
    accu, pre, rec, f1,   \* the per-class results appended so far
    e_ret                 \* what evaluate() returned

evalVars == <<e_pc, e_nimg, e_w, e_h, e_threshold, e_i, e_j, e_gt_boxes,
              accu, pre, rec, f1, e_ret>>

VARIABLES
    o_pc,            \* position in the overlap computation
    o_box_a, o_box_b,  \* the two box sets handed to jaccard
    o_jaccard,       \* jaccard(o_box_a, o_box_b)
    o_iou            \* the IoU nms computes for the same pair

overlapVars == <<o_pc, o_box_a, o_box_b, o_jaccard, o_iou>>

VARIABLES
    ms_pc,                        \* position in the call of measure()
    ms_pred_boxes, ms_gt_boxes,   \* its arguments pred_boxes and gt_boxes
    ms_width, ms_height,          \* its arguments width and height
    ms_ret                        \* (accuracy, precision, recall)

measureVars == <<ms_pc, ms_pred_boxes, ms_gt_boxes, ms_width, ms_height,
                 ms_ret>>

VARIABLES
    t_pc,         \* position in the round trip through both box forms
    t_boxes,      \* center-form boxes (cx, cy, w, h)
    t_point,      \* point_form(t_boxes)
    t_center      \* center_size(t_point)

transformVars == <<t_pc, t_boxes, t_point, t_center>>

VARIABLES
    k_pc,          \* position in the round trip through encode and decode
    k_matched,     \* corner-form matched boxes, one per prior
    k_priors,      \* center-form priors
    k_variances,   \* the pair of variances
    k_loc,         \* encode(k_matched, k_priors, k_variances)
    k_decoded      \* decode(k_loc, k_priors, k_variances)

codecVars == <<k_pc, k_matched, k_priors, k_variances, k_loc, k_decoded>>

pureVars == <<measureVars, transformVars, codecVars>>

vars == <<matchVars, nmsVars, evalVars, overlapVars, pureVars>>

(***************************************************************************)
(* Floating point quotients.                                               *)
(***************************************************************************)
Quot(a, b) == [n |-> a, d |-> b]
IsNaN(q) == q.d = 0
\* q < r, q <= r, q > r on floats: false as soon as one side is NaN
Lt(q, r) == q.d # 0 /\ r.d # 0 /\ q.n * r.d < r.n * q.d
Le(q, r) == q.d # 0 /\ r.d # 0 /\ q.n * r.d <= r.n * q.d
Gt(q, r) == Lt(r, q)
QEq(q, r) == q.d # 0 /\ r.d # 0 /\ q.n * r.d = r.n * q.d
Zero == Quot(0, 1)
One == Quot(1, 1)

Min2(a, b) == IF a <= b THEN a ELSE b
Max2(a, b) == IF a >= b THEN a ELSE b
\* a variant that does not clamp
NoClamp(x) == x
\* torch.clamp(x, min=0)
ClampMin0(x) == IF x < 0 THEN 0 ELSE x

(***************************************************************************)
(* Coordinate transform (box_utils.py, point_form and center_size).  Both  *)
(* work on an [N,4] tensor, here a sequence of 4-tuples.                   *)
(***************************************************************************)
point_form(bxs) ==
    [k \in 1..Len(bxs) |->
        <<bxs[k][1] - bxs[k][3] \div 2, bxs[k][2] - bxs[k][4] \div 2,
          bxs[k][1] + bxs[k][3] \div 2, bxs[k][2] + bxs[k][4] \div 2>>]

\* a variant that leaves the halving out
center_sizeNoHalf(bxs) ==
    [k \in 1..Len(bxs) |->
        <<bxs[k][3] + bxs[k][1], bxs[k][4] + bxs[k][2],
          bxs[k][3] - bxs[k][1], bxs[k][4] - bxs[k][2]>>]

center_size(bxs) ==
    [k \in 1..Len(bxs) |->
        <<(bxs[k][3] + bxs[k][1]) \div 2, (bxs[k][4] + bxs[k][2]) \div 2,
          bxs[k][3] - bxs[k][1], bxs[k][4] - bxs[k][2]>>]

(***************************************************************************)
(* Geometric overlap (box_utils.py, intersect and jaccard): [A,B] matrices *)
(* as sequences of rows.                                                   *)
(***************************************************************************)
intersect(box_a, box_b) ==
    [a \in 1..Len(box_a) |-> [b \in 1..Len(box_b) |->
        LET max_x == Min2(box_a[a][3], box_b[b][3])
            max_y == Min2(box_a[a][4], box_b[b][4])
            min_x == Max2(box_a[a][1], box_b[b][1])
            min_y == Max2(box_a[a][2], box_b[b][2])
        IN  ClampMin0(max_x - min_x) * ClampMin0(max_y - min_y)]]

get_box_size(box) ==
    [k \in 1..Len(box) |-> (box[k][3] - box[k][1]) * (box[k][4] - box[k][2])]

jaccard(box_a, box_b) ==
    LET inter == intersect(box_a, box_b)
        area_a == get_box_size(box_a)
        area_b == get_box_size(box_b)
    IN  [a \in 1..Len(box_a) |-> [b \in 1..Len(box_b) |->
            Quot(inter[a][b], area_a[a] + area_b[b] - inter[a][b])]]

(***************************************************************************)
(* Box encoder (box_utils.py, encode).  The centre offset is the quotient  *)
(* the code divides out; the size offset log(matched_wh / prior_wh) /      *)
(* variances[1] is kept as the argument of the logarithm and its divisor.  *)
(***************************************************************************)
Variances == <<Quot(1, 10), Quot(2, 10)>>

encode(matched, prs, variances) ==
    [k \in 1..Len(prs) |->
        LET m == matched[k]
            p == prs[k]
        IN  [cx |-> Quot((m[1] + m[3] - 2 * p[1]) * variances[1].d,
                         2 * variances[1].n * p[3]),
             cy |-> Quot((m[2] + m[4] - 2 * p[2]) * variances[1].d,
                         2 * variances[1].n * p[4]),
             w  |-> [log |-> Quot(m[3] - m[1], p[3]), over |-> variances[2]],
             h  |-> [log |-> Quot(m[4] - m[2], p[4]), over |-> variances[2]]]]

(***************************************************************************)
(* Box decoder (box_utils.py, decode), in exact arithmetic on quotients.   *)
(* A size offset is log(r) / over as encode left it; decode multiplies it  *)
(* by variances[1] and exponentiates, which gives r to the power           *)
(* variances[1] / over: NaN for r < 0 (log of a negative number), 0 for    *)
(* r = 0 (exp of -inf).  decode runs with the variances encode ran with,   *)
(* so the power is a whole number.                                         *)
(***************************************************************************)
QNeg(q) == Quot(0 - q.n, q.d)
QSub(q, r) ==
    LET n == q.n * r.d - r.n * q.d
        d == q.d * r.d
    IN  IF d = 0 THEN Quot(0, 0) ELSE IF d < 0 THEN Quot(0 - n, 0 - d) ELSE Quot(n, d)
QPlus(q, r) == QSub(q, QNeg(r))
QTimes(q, r) == Quot(q.n * r.n, q.d * r.d)
QOver(q, r) == Quot(q.n * r.d, q.d * r.n)

RECURSIVE QPowN(_, _)
QPowN(q, e) == IF e = 0 THEN One ELSE QTimes(q, QPowN(q, e - 1))

\* torch.exp(offset * v) for offset = log(t.log) / t.over
ExpTimes(t, v) ==
    LET e == QOver(v, t.over)
    IN  IF IsNaN(t.log) \/ t.log.n * t.log.d < 0 \/ IsNaN(e) \/ e.n % e.d # 0
        THEN Quot(0, 0)
        ELSE QPowN(t.log, e.n \div e.d)

\* a variant that leaves the variances out
decodeNoVariance(loc, prs, variances) ==
    [k \in 1..Len(prs) |->
        LET p == prs[k]
            cx == QPlus(Quot(p[1], 1), QTimes(loc[k].cx, Quot(p[3], 1)))
            cy == QPlus(Quot(p[2], 1), QTimes(loc[k].cy, Quot(p[4], 1)))
            w  == QTimes(Quot(p[3], 1), ExpTimes(loc[k].w, One))
            h  == QTimes(Quot(p[4], 1), ExpTimes(loc[k].h, One))
            x1 == QSub(cx, QOver(w, Quot(2, 1)))
            y1 == QSub(cy, QOver(h, Quot(2, 1)))
        IN  <<x1, y1, QPlus(w, x1), QPlus(h, y1)>>]

decode(loc, prs, variances) ==
    [k \in 1..Len(prs) |->
        LET p == prs[k]
            \* line 163: priors[:, :2] + loc[:, :2] * variances[0] * priors[:, 2:]
            cx == QPlus(Quot(p[1], 1),
                        QTimes(QTimes(loc[k].cx, variances[1]), Quot(p[3], 1)))
            cy == QPlus(Quot(p[2], 1),
                        QTimes(QTimes(loc[k].cy, variances[1]), Quot(p[4], 1)))
            \* line 164: priors[:, 2:] * torch.exp(loc[:, 2:] * variances[1])
            w  == QTimes(Quot(p[3], 1), ExpTimes(loc[k].w, variances[2]))
            h  == QTimes(Quot(p[4], 1), ExpTimes(loc[k].h, variances[2]))
            \* line 165: boxes[:, :2] -= boxes[:, 2:] / 2
            x1 == QSub(cx, QOver(w, Quot(2, 1)))
            y1 == QSub(cy, QOver(h, Quot(2, 1)))
            \* line 166: boxes[:, 2:] += boxes[:, :2], on the updated corner
        IN  <<x1, y1, QPlus(w, x1), QPlus(h, y1)>>]

(***************************************************************************)
(* The inputs match() is run on.  Ground-truth boxes are corner-form boxes *)
(* of positive area; the prior set is one of a few configurations of       *)
(* center-form boxes of positive even size (the prior layer builds priors  *)
(* of positive size), so the union of a ground truth and a prior is never  *)
(* zero.  In corner form the three priors are (0,0,2,2), (1,0,3,2) and     *)
(* (0,0,4,2).                                                              *)
(***************************************************************************)
TruthBoxes ==
    {<<0, 0, 2, 2>>, <<0, 0, 3, 2>>, <<0, 0, 1, 2>>,
     <<0, 1, 1, 2>>, <<0, 1, 3, 2>>, <<2, 0, 3, 2>>}
PriorSets ==
    {<<<<1, 1, 2, 2>>>>,
     <<<<1, 1, 2, 2>>, <<2, 1, 2, 2>>>>,
     <<<<1, 1, 2, 2>>, <<2, 1, 2, 2>>, <<2, 1, 4, 2>>>>}
Labels == {0, 1}
Thresholds == {Quot(1, 2)}
Slots == 1..NumSlots

SeqsUpTo(S, lo, hi) == UNION {[1..n -> S] : n \in lo..hi}

num_gt == Len(truths)
num_priors == Len(priors)

\* tensor.max(dim): the maximal value of a non-empty vector and the indices
\* holding it (which of several maximal entries is returned is not specified)
IsMaxAt(vec, k) == \A i \in DOMAIN vec : Le(vec[i], vec[k])
ArgMaxSet(vec) == {k \in DOMAIN vec : IsMaxAt(vec, k)}
Column(mat, p) == [g \in DOMAIN mat |-> mat[g][p]]

\* The caller's buffers before the call: every slot holds one row per prior
\* position of the buffer, not yet written.  A written row of loc_t never
\* equals UnwrittenLoc (its "over" fields are the variances), a written
\* entry of conf_t is a class index >= 0.
UnwrittenLoc ==
    [cx |-> Zero, cy |-> Zero,
     w |-> [log |-> Zero, over |-> Zero], h |-> [log |-> Zero, over |-> Zero]]
UnwrittenConf == 0 - 1
EmptyLocSlot(width) == [k \in 1..width |-> UnwrittenLoc]
EmptyConfSlot(width) == [k \in 1..width |-> UnwrittenConf]

\* the state at the call of match(); widths are the slot widths the caller's
\* buffers may have
InitMatchWidth(widths) ==
    /\ m_pc = "jaccard"
    /\ priors \in PriorSets
    /\ truths \in SeqsUpTo(TruthBoxes, 0, MaxGT)
    /\ labels \in [DOMAIN truths -> Labels]
    /\ threshold \in Thresholds
    /\ overlaps = <<>>
    /\ best_prior_overlap = <<>> /\ best_prior_idx = <<>>
    /\ best_truth_overlap = <<>> /\ best_truth_idx = <<>>
    /\ col_argmax = <<>>
    /\ j = 0
    /\ matches = <<>> /\ conf = <<>>
    /\ visualize = FALSE /\ idx = 1
    /\ \E width \in widths :
          /\ loc_t = [s \in Slots |-> EmptyLocSlot(width)]
          /\ conf_t = [s \in Slots |-> EmptyConfSlot(width)]
    /\ m_ret = <<>>

\* the buffers are built with one row per prior
InitMatch == InitMatchWidth({Len(priors)})

\* buffers of any width up to MaxWidth
InitMatchAnyWidth == InitMatchWidth(1..MaxWidth)

\* lines 89-92
MatchJaccard ==
    /\ m_pc = "jaccard"
    /\ overlaps' = jaccard(truths, point_form(priors))
    /\ m_pc' = "max1"
    /\ UNCHANGED <<truths, labels, priors, threshold, best_prior_overlap,
                   best_prior_idx, best_truth_overlap, best_truth_idx,
                   col_argmax, j, matches, conf, visualize, idx, loc_t,
                   conf_t, m_ret>>
    /\ UNCHANGED <<nmsVars, evalVars, overlapVars, pureVars>>

\* line 95: overlaps.max(1), one entry per ground truth (none when there is
\* no ground truth: the reduced dimension num_priors is not empty)
MatchMaxOverPriors ==
    /\ m_pc = "max1"
    /\ \E bpi \in [1..num_gt -> 1..num_priors] :
          /\ \A g \in 1..num_gt : bpi[g] \in ArgMaxSet(overlaps[g])
          /\ best_prior_idx' = bpi
          /\ best_prior_overlap' = [g \in 1..num_gt |-> overlaps[g][bpi[g]]]
    /\ m_pc' = "max0"
    /\ UNCHANGED <<truths, labels, priors, threshold, overlaps,
                   best_truth_overlap, best_truth_idx, col_argmax, j, matches,
                   conf, visualize, idx, loc_t, conf_t, m_ret>>
    /\ UNCHANGED <<nmsVars, evalVars, overlapVars, pureVars>>

\* line 97: overlaps.max(0); torch raises on a reduction over the empty
\* dimension num_gt = 0
MatchMaxOverTruths ==
    /\ m_pc = "max0"
    /\ IF num_gt = 0
       THEN /\ m_pc' = "raised"
            /\ UNCHANGED <<best_truth_idx, best_truth_overlap, col_argmax>>
       ELSE /\ \E bti \in [1..num_priors -> 1..num_gt] :
                  /\ \A p \in 1..num_priors :
                        bti[p] \in ArgMaxSet(Column(overlaps, p))
                  /\ best_truth_idx' = bti
                  /\ col_argmax' = bti
                  /\ best_truth_overlap' =
                        [p \in 1..num_priors |-> overlaps[bti[p]][p]]
            /\ m_pc' = "scatter"
    /\ UNCHANGED <<truths, labels, priors, threshold, overlaps,
                   best_prior_overlap, best_prior_idx, j, matches, conf,
                   visualize, idx, loc_t, conf_t, m_ret>>
    /\ UNCHANGED <<nmsVars, evalVars, overlapVars, pureVars>>

\* line 106: best_truth_idx[best_prior_idx] = arange(num_gt), an indexed
\* assignment; where best_prior_idx names a prior several times, which of the
\* values lands is not specified
MatchScatter ==
    /\ m_pc = "scatter"
    /\ \E w \in [1..num_priors -> 1..num_gt] :
          /\ \A p \in 1..num_priors :
                IF \E g \in 1..num_gt : best_prior_idx[g] = p
                THEN best_prior_idx[w[p]] = p
                ELSE w[p] = best_truth_idx[p]
          /\ best_truth_idx' = w
    /\ j' = 1
    /\ m_pc' = "loop"
    /\ UNCHANGED <<truths, labels, priors, threshold, overlaps,
                   best_prior_overlap, best_prior_idx, best_truth_overlap,
                   col_argmax, matches, conf, visualize, idx, loc_t, conf_t,
                   m_ret>>
    /\ UNCHANGED <<nmsVars, evalVars, overlapVars, pureVars>>

\* a variant that leaves a prior to the first ground truth that claimed it
ForcedAssignFirst(bti, bpi, g) ==
    IF \E g0 \in 1..(g - 1) : bpi[g0] = bpi[g] THEN bti
    ELSE [bti EXCEPT ![bpi[g]] = g]

\* lines 110-111, one iteration: best_truth_idx[best_prior_idx[j]] = j
ForcedAssign(bti, bpi, g) == [bti EXCEPT ![bpi[g]] = g]

MatchLoop ==
    /\ m_pc = "loop"
    /\ j <= num_gt
    /\ best_truth_idx' = ForcedAssign(best_truth_idx, best_prior_idx, j)
    /\ j' = j + 1
    /\ UNCHANGED <<m_pc, truths, labels, priors, threshold, overlaps,
                   best_prior_overlap, best_prior_idx, best_truth_overlap,
                   col_argmax, matches, conf, visualize, idx, loc_t, conf_t,
                   m_ret>>
    /\ UNCHANGED <<nmsVars, evalVars, overlapVars, pureVars>>

\* lines 114-116
Suppressed(ov, thr) == Lt(ov, thr)

\* a variant that looks the overlap up again after the override
ConfTargetRecomputed(lab, bti, bto, thr) ==
    [p \in DOMAIN bti |->
        IF Suppressed(overlaps[bti[p]][p], thr) THEN 0 ELSE lab[bti[p]] + 1]

ConfTarget(lab, bti, bto, thr) ==
    [p \in DOMAIN bti |->
        IF Suppressed(bto[p], thr) THEN 0 ELSE lab[bti[p]] + 1]

MatchConf ==
    /\ m_pc = "loop"
    /\ j > num_gt
    /\ matches' = [p \in 1..num_priors |-> truths[best_truth_idx[p]]]
    /\ conf' = ConfTarget(labels, best_truth_idx, best_truth_overlap, threshold)
    /\ m_pc' = "return"
    /\ UNCHANGED <<truths, labels, priors, threshold, overlaps,
                   best_prior_overlap, best_prior_idx, best_truth_overlap,
                   best_truth_idx, col_argmax, j, visualize, idx, loc_t,
                   conf_t, m_ret>>
    /\ UNCHANGED <<nmsVars, evalVars, overlapVars, pureVars>>

\* lines 120-121: tensor[idx] = value takes a value of the slot's shape, or
\* one with a single row, which is repeated over the slot (broadcasting);
\* every other shape raises
Assignable(rows, width) == rows = width \/ rows = 1
Broadcast(value, width) ==
    IF Len(value) = width THEN value ELSE [k \in 1..width |-> value[1]]

\* a variant that writes every slot of the buffer
WriteEverySlot(buffer, i, value) ==
    [s \in DOMAIN buffer |-> Broadcast(value, Len(buffer[s]))]

\* buffer[i] = value
WriteSlot(buffer, i, value) ==
    [buffer EXCEPT ![i] = Broadcast(value, Len(buffer[i]))]

\* lines 117-121: the diagnostics return, or the write of slot idx
MatchReturn ==
    /\ m_pc = "return"
    /\ \E v \in BOOLEAN, i \in Slots :
          /\ visualize' = v
          /\ idx' = i
          /\ IF v
             THEN /\ m_ret' = <<overlaps, conf>>
                  /\ UNCHANGED <<loc_t, conf_t>>
                  /\ m_pc' = "done"
             ELSE IF Assignable(Len(conf), Len(conf_t[i]))
             THEN /\ loc_t' = WriteSlot(loc_t, i,
                                        encode(matches, priors, Variances))
                  /\ conf_t' = WriteSlot(conf_t, i, conf)
                  /\ m_ret' = <<>>
                  /\ m_pc' = "done"
             ELSE /\ m_pc' = "raised"
                  /\ UNCHANGED <<loc_t, conf_t, m_ret>>
    /\ UNCHANGED <<truths, labels, priors, threshold, overlaps,
                   best_prior_overlap, best_prior_idx, best_truth_overlap,
                   best_truth_idx, col_argmax, j, matches, conf>>
    /\ UNCHANGED <<nmsVars, evalVars, overlapVars, pureVars>>

NextMatch ==
    \/ MatchJaccard
    \/ MatchMaxOverPriors
    \/ MatchMaxOverTruths
    \/ MatchScatter
    \/ MatchLoop
    \/ MatchConf
    \/ MatchReturn

(***************************************************************************)
(* Non-maximum suppression (box_utils.py, nms).  Candidates are numbered   *)
(* from 0 as in the code, so that the zeros keep is filled with are        *)
(* the code's zeros; candidate i is boxes[i + 1], scores[i + 1].           *)
(***************************************************************************)
NmsBoxes == {<<0, 0, 2, 2>>, <<1, 0, 3, 2>>, <<0, 0, 3, 2>>, <<1, 1, 1, 1>>}
Scores == 1..MaxScore
Overlaps == {Quot(1, 2)}

BoxOf(i) == boxes[i + 1]
ScoreOf(i) == scores[i + 1]
Area(b) == (b[3] - b[1]) * (b[4] - b[2])
\* a variant that reads the first entry: idx[0]
First(sq) == sq[1]
\* idx[-1] and idx[:-1]
Last(sq) == sq[Len(sq)]
Front(sq) == SubSeq(sq, 1, Len(sq) - 1)

\* scores.sort(0): the index orders that list the scores in ascending order
\* (the order of equal scores is not specified)
SortedIdx(sc) ==
    {f \in [1..Len(sc) -> 0..(Len(sc) - 1)] :
        /\ \A a, b \in 1..Len(sc) : a < b => f[a] # f[b]
        /\ \A a, b \in 1..Len(sc) : a < b => sc[f[a] + 1] <= sc[f[b] + 1]}

\* a variant that takes the k lowest: idx[:top_k]
BottomK(sq, k) == SubSeq(sq, 1, Min2(k, Len(sq)))

\* idx[-top_k:]
TopK(sq, k) == SubSeq(sq, Max2(1, Len(sq) - k + 1), Len(sq))

\* lines 225-245: the IoU of the selected box b_i with a remaining box b_k
NmsIoU(b_i, b_k) ==
    LET xx1 == Max2(b_k[1], b_i[1])
        yy1 == Max2(b_k[2], b_i[2])
        xx2 == Min2(b_k[3], b_i[3])
        yy2 == Min2(b_k[4], b_i[4])
        w == ClampMin0(xx2 - xx1)
        h == ClampMin0(yy2 - yy1)
        inter == w * h
    IN  Quot(inter, (Area(b_k) - inter) + Area(b_i))

\* idx[IoU.le(overlap)]
RECURSIVE SelectSeq2(_, _)
SelectSeq2(sq, keepIt) ==
    IF sq = <<>> THEN <<>>
    ELSE IF keepIt[1] THEN <<sq[1]>> \o SelectSeq2(Tail(sq), Tail(keepIt))
         ELSE SelectSeq2(Tail(sq), Tail(keepIt))

\* a variant that discards nothing
SurvivorsAll(rest, i, thr) == rest

Survivors(rest, i, thr) ==
    SelectSeq2(rest, [k \in 1..Len(rest) |->
                         Le(NmsIoU(BoxOf(i), BoxOf(rest[k])), thr)])

InitNms ==
    /\ n_pc = "start"
    /\ \E n \in 0..MaxCand :
          /\ boxes \in [1..n -> NmsBoxes]
          /\ scores \in [1..n -> Scores]
    /\ overlap \in Overlaps
    /\ top_k \in 1..MaxTopK
    /\ keep = <<>>
    /\ count = 0
    /\ n_idx = <<>> /\ n_pool = <<>>
    /\ n_ret = <<>>

\* lines 196-198: the buffer, and the early return of keep alone
NmsStart ==
    /\ n_pc = "start"
    /\ keep' = [k \in 1..Len(scores) |-> 0]
    /\ IF Len(boxes) = 0
       THEN /\ n_ret' = <<keep'>>
            /\ n_pc' = "done"
       ELSE /\ n_ret' = n_ret
            /\ n_pc' = "sort"
    /\ UNCHANGED <<boxes, scores, overlap, top_k, count, n_idx, n_pool>>
    /\ UNCHANGED <<matchVars, evalVars, overlapVars, pureVars>>

\* lines 204-215
NmsSort ==
    /\ n_pc = "sort"
    /\ \E f \in SortedIdx(scores) : n_idx' = TopK(f, top_k)
    /\ n_pool' = n_idx'
    /\ count' = 0
    /\ n_pc' = "loop"
    /\ UNCHANGED <<boxes, scores, overlap, top_k, keep, n_ret>>
    /\ UNCHANGED <<matchVars, evalVars, overlapVars, pureVars>>

\* lines 216-247, one iteration of the while loop
NmsIterate ==
    /\ n_pc = "loop"
    /\ Len(n_idx) > 0
    /\ LET i == Last(n_idx)
           rest == Front(n_idx)
       IN  /\ keep' = [keep EXCEPT ![count + 1] = i]
           /\ count' = count + 1
           /\ IF Len(n_idx) = 1
              THEN /\ n_pc' = "return"
                   /\ n_idx' = n_idx
              ELSE IF \E k \in 1..Len(n_idx) : n_idx[k] >= Len(boxes)
              THEN /\ n_pc' = "raised"
                   /\ n_idx' = rest
              ELSE /\ n_pc' = "loop"
                   /\ n_idx' = Survivors(rest, i, overlap)
    /\ UNCHANGED <<boxes, scores, overlap, top_k, n_pool, n_ret>>
    /\ UNCHANGED <<matchVars, evalVars, overlapVars, pureVars>>

\* line 216, the loop's exit on an empty idx
NmsExit ==
    /\ n_pc = "loop"
    /\ Len(n_idx) = 0
    /\ n_pc' = "return"
    /\ UNCHANGED <<boxes, scores, overlap, top_k, keep, count, n_idx, n_pool,
                   n_ret>>
    /\ UNCHANGED <<matchVars, evalVars, overlapVars, pureVars>>

\* line 248
NmsReturn ==
    /\ n_pc = "return"
    /\ n_ret' = <<keep, count>>
    /\ n_pc' = "done"
    /\ UNCHANGED <<boxes, scores, overlap, top_k, keep, count, n_idx, n_pool>>
    /\ UNCHANGED <<matchVars, evalVars, overlapVars, pureVars>>

NextNms == NmsStart \/ NmsSort \/ NmsIterate \/ NmsExit \/ NmsReturn

(***************************************************************************)
(* Evaluation metrics (box_utils.py, measure; train.py, avg and evaluate). *)
(* evaluate() is modelled as val() calls it, with visualize=False.         *)
(***************************************************************************)
\* the quotient in lowest terms (the float it stands for is the same)
RECURSIVE GCD(_, _)
GCD(a, b) == IF b = 0 THEN a ELSE GCD(b, a % b)
Norm(q) ==
    IF q.d = 0 THEN Quot(0, 0)
    ELSE LET g == GCD(IF q.n < 0 THEN -q.n ELSE q.n, q.d)
         IN  Quot(q.n \div g, q.d \div g)
QAdd(q, r) == Norm(Quot(q.n * r.d + r.n * q.d, q.d * r.d))
QMul(q, r) == Norm(Quot(q.n * r.n, q.d * r.d))
\* q / r for r > 0 or NaN
QDiv(q, r) == Norm(Quot(q.n * r.d, q.d * r.n))

RECURSIVE QSum(_)
QSum(sq) == IF sq = <<>> THEN Zero ELSE QAdd(sq[1], QSum(Tail(sq)))

\* tensor.max over a non-empty vector of floats: NaN when an entry is NaN
QMaxVal(vec) ==
    IF \E k \in DOMAIN vec : IsNaN(vec[k])
    THEN Quot(0, 0)
    ELSE vec[CHOOSE k \in DOMAIN vec : \A i \in DOMAIN vec : Le(vec[i], vec[k])]
\* the same over integers
IMaxVal(vec) == CHOOSE v \in {vec[k] : k \in DOMAIN vec} :
                    \A k \in DOMAIN vec : vec[k] <= v
Row(mat, a) == mat[a]

\* a variant without the case of two empty sets
measureOneEmptyCase(pred_boxes, gt_boxes, width, height) ==
    IF Len(gt_boxes) = 0 \/ Len(pred_boxes) = 0 THEN <<Zero, Zero, Zero>>
    ELSE <<One, One, One>>

measure(pred_boxes, gt_boxes, width, height) ==
    IF Len(gt_boxes) = 0 /\ Len(pred_boxes) = 0 THEN <<One, One, One>>
    ELSE IF Len(gt_boxes) = 0 /\ Len(pred_boxes) # 0 THEN <<Zero, Zero, Zero>>
    ELSE IF Len(gt_boxes) # 0 /\ Len(pred_boxes) = 0 THEN <<Zero, Zero, Zero>>
    ELSE
      LET inter == intersect(pred_boxes, gt_boxes)
          text_area == get_box_size(pred_boxes)
          gt_area == get_box_size(gt_boxes)
          num_sample == Max2(Len(text_area), Len(gt_area))
          jac == jaccard(pred_boxes, gt_boxes)
          accuracy == QSum([g \in 1..Len(gt_boxes) |-> QMaxVal(Column(jac, g))])
          precision == QSum([p \in 1..Len(pred_boxes) |->
                               Quot(IMaxVal(Row(inter, p)), text_area[p])])
          recall == QSum([g \in 1..Len(gt_boxes) |->
                            Quot(IMaxVal(Column(inter, g)), gt_area[g])])
      IN  <<QDiv(accuracy, Quot(num_sample, 1)),
            QDiv(precision, Quot(num_sample, 1)),
            QDiv(recall, Quot(num_sample, 1))>>

\* train.py, avg: sum(list) / len(list) on a non-empty list
avg(list) == QDiv(QSum(list), Quot(Len(list), 1))

\* detections.size(1): the background class 0 and two object classes
ClassIndices == {0, 1, 2}
NumClasses == Cardinality(ClassIndices)
NumBuckets == 20
EvalBoxes == {<<0, 0, 2, 2>>, <<0, 0, 3, 2>>, <<1, 1, 1, 1>>}
DetScores == {Quot(1, 20), Quot(1, 10)}
EvalThresholds == {Quot(1, 10)}
Half == Quot(1, 2)
F1Floor == Quot(1, 1000)
ImageSizes == {300}

InitEvaluate ==
    /\ e_pc = "image"
    /\ e_nimg \in 1..MaxImages
    /\ e_w \in ImageSizes /\ e_h \in ImageSizes
    /\ e_threshold \in EvalThresholds
    /\ e_i = 0
    /\ e_j = 1
    /\ e_gt_boxes = [c \in 0..(NumBuckets - 1) |-> <<>>]
    /\ accu = <<>> /\ pre = <<>> /\ rec = <<>> /\ f1 = <<>>
    /\ e_ret = <<>>

\* lines 154-158: the ground truth of image e_i, bucketed by class
RECURSIVE Bucket(_, _)
Bucket(tgt, c) ==
    IF tgt = <<>> THEN <<>>
    ELSE IF tgt[1].cls = c THEN <<tgt[1].box>> \o Bucket(Tail(tgt), c)
         ELSE Bucket(Tail(tgt), c)

EvalImage ==
    /\ e_pc = "image"
    /\ e_i < e_nimg
    /\ \E tgt \in SeqsUpTo([box : EvalBoxes, cls : 0..(NumClasses - 2)],
                           0, MaxEvalGT) :
          e_gt_boxes' = [c \in 0..(NumBuckets - 1) |-> Bucket(tgt, c)]
    /\ e_j' = 1
    /\ e_pc' = "class"
    /\ UNCHANGED <<e_nimg, e_w, e_h, e_threshold, e_i, accu, pre, rec, f1, e_ret>>
    /\ UNCHANGED <<matchVars, nmsVars, overlapVars, pureVars>>

\* lines 162-163: the boxes of the detections at or above the threshold
RECURSIVE Confident(_, _)
Confident(dets, thr) ==
    IF dets = <<>> THEN <<>>
    ELSE IF Le(thr, dets[1].score)
         THEN <<dets[1].box>> \o Confident(Tail(dets), thr)
         ELSE Confident(Tail(dets), thr)

\* lines 171-186: the per-class result when both sets are non-empty
ClassResult(bxs, gt) ==
    LET jac == jaccard(bxs, gt)
        ovl == [p \in 1..Len(bxs) |-> QMaxVal(Row(jac, p))]
        positive_pred == SelectSeq2(bxs, [p \in 1..Len(bxs) |-> Gt(ovl[p], Half)])
        m == measure(positive_pred, gt, e_w, e_h)
        sm == QAdd(m[3], m[2])
        f1_score == IF Lt(sm, F1Floor) THEN Zero
                    ELSE QDiv(QMul(Quot(2, 1), QMul(m[3], m[2])), sm)
    IN  <<m[1], m[2], m[3], f1_score>>

\* lines 164-170: whether a result is appended for the class, and which
Skipped(bxs, gt) == Len(bxs) = 0 /\ Len(gt) = 0

PerClass(bxs, gt) ==
    IF Len(bxs) # 0 /\ Len(gt) = 0 THEN <<Zero, Zero, One, Zero>>
    ELSE IF Len(bxs) = 0 /\ Len(gt) # 0 THEN <<Zero, One, Zero, Zero>>
    ELSE ClassResult(bxs, gt)

\* lines 161-195, one iteration of the class loop
EvalClass ==
    /\ e_pc = "class"
    /\ e_j < NumClasses
    /\ \E dets \in SeqsUpTo([score : DetScores, box : EvalBoxes], 0, MaxDet) :
          LET bxs == Confident(dets, e_threshold)
              gt == e_gt_boxes[e_j - 1]
          IN  IF Skipped(bxs, gt)
              THEN UNCHANGED <<accu, pre, rec, f1>>
              ELSE LET r == PerClass(bxs, gt)
                   IN  /\ accu' = Append(accu, r[1])
                       /\ pre' = Append(pre, r[2])
                       /\ rec' = Append(rec, r[3])
                       /\ f1' = Append(f1, r[4])
    /\ e_j' = e_j + 1
    /\ UNCHANGED <<e_pc, e_nimg, e_w, e_h, e_threshold, e_i, e_gt_boxes, e_ret>>
    /\ UNCHANGED <<matchVars, nmsVars, overlapVars, pureVars>>

\* line 153, the next image
EvalNextImage ==
    /\ e_pc = "class"
    /\ e_j = NumClasses
    /\ e_i' = e_i + 1
    /\ e_pc' = "image"
    /\ UNCHANGED <<e_nimg, e_w, e_h, e_threshold, e_j, e_gt_boxes, accu, pre, rec, f1, e_ret>>
    /\ UNCHANGED <<matchVars, nmsVars, overlapVars, pureVars>>

\* line 197: avg() divides by len(list), which raises on an empty list
EvalReturn ==
    /\ e_pc = "image"
    /\ e_i = e_nimg
    /\ IF Len(accu) = 0
       THEN /\ e_pc' = "raised"
            /\ e_ret' = e_ret
       ELSE /\ e_pc' = "done"
            /\ e_ret' = <<avg(accu), avg(pre), avg(rec), avg(f1)>>
    /\ UNCHANGED <<e_nimg, e_w, e_h, e_threshold, e_i, e_j, e_gt_boxes, accu, pre, rec, f1>>
    /\ UNCHANGED <<matchVars, nmsVars, overlapVars, pureVars>>

NextEvaluate == EvalImage \/ EvalClass \/ EvalNextImage \/ EvalReturn

(***************************************************************************)
(* The overlap of one pair of boxes, as jaccard computes it and as nms     *)
(* computes it.  The pair ranges over every corner-form box of the grid    *)
(* with xmin <= xmax and ymin <= ymax, the boxes of zero area included.    *)
(***************************************************************************)
MaxCoord == 2
GridBoxes ==
    {b \in (0..MaxCoord) \X (0..MaxCoord) \X (0..MaxCoord) \X (0..MaxCoord) :
        b[1] <= b[3] /\ b[2] <= b[4]}

InitOverlap ==
    /\ o_pc = "jaccard"
    /\ o_box_a \in [1..1 -> GridBoxes]
    /\ o_box_b \in [1..1 -> GridBoxes]
    /\ o_jaccard = <<>>
    /\ o_iou = Zero

OverlapJaccard ==
    /\ o_pc = "jaccard"
    /\ o_jaccard' = jaccard(o_box_a, o_box_b)
    /\ o_pc' = "nms"
    /\ UNCHANGED <<o_box_a, o_box_b, o_iou>>
    /\ UNCHANGED <<matchVars, nmsVars, evalVars, pureVars>>

OverlapNms ==
    /\ o_pc = "nms"
    /\ o_iou' = NmsIoU(o_box_a[1], o_box_b[1])
    /\ o_pc' = "done"
    /\ UNCHANGED <<o_box_a, o_box_b, o_jaccard>>
    /\ UNCHANGED <<matchVars, nmsVars, evalVars, pureVars>>

NextOverlap == OverlapJaccard \/ OverlapNms

(***************************************************************************)
(* measure() called once (box_utils.py, lines 303-340).                    *)
(***************************************************************************)
MeasureCounts == {0, 1, 2}
MeasureSizes == {0, 1, 300}

InitMeasure ==
    /\ ms_pc = "call"
    /\ \E n \in MeasureCounts : ms_pred_boxes \in [1..n -> EvalBoxes]
    /\ \E n \in MeasureCounts : ms_gt_boxes \in [1..n -> EvalBoxes]
    /\ ms_width \in MeasureSizes /\ ms_height \in MeasureSizes
    /\ ms_ret = <<>>

MeasureCall ==
    /\ ms_pc = "call"
    /\ ms_ret' = measure(ms_pred_boxes, ms_gt_boxes, ms_width, ms_height)
    /\ ms_pc' = "done"
    /\ UNCHANGED <<ms_pred_boxes, ms_gt_boxes, ms_width, ms_height>>
    /\ UNCHANGED <<matchVars, nmsVars, evalVars, overlapVars, transformVars,
                   codecVars>>

NextMeasure == MeasureCall

(***************************************************************************)
(* point_form followed by center_size (box_utils.py, lines 5-26).  Sizes   *)
(* are even numbers of grid steps, so that the halving in point_form is    *)
(* exact as it is on floats; a size of 0 is among them.                    *)
(***************************************************************************)
MaxHalfSize == 2
CenterBoxes ==
    {<<cx, cy, 2 * hw, 2 * hh>> :
        cx \in 0..MaxCoord, cy \in 0..MaxCoord,
        hw \in 0..MaxHalfSize, hh \in 0..MaxHalfSize}
BoxCounts == {0, 1, 2}

InitTransform ==
    /\ t_pc = "point_form"
    /\ \E n \in BoxCounts : t_boxes \in [1..n -> CenterBoxes]
    /\ t_point = <<>>
    /\ t_center = <<>>

TransformPointForm ==
    /\ t_pc = "point_form"
    /\ t_point' = point_form(t_boxes)
    /\ t_pc' = "center_size"
    /\ UNCHANGED <<t_boxes, t_center>>
    /\ UNCHANGED <<matchVars, nmsVars, evalVars, overlapVars, measureVars,
                   codecVars>>

TransformCenterSize ==
    /\ t_pc = "center_size"
    /\ t_center' = center_size(t_point)
    /\ t_pc' = "done"
    /\ UNCHANGED <<t_boxes, t_point>>
    /\ UNCHANGED <<matchVars, nmsVars, evalVars, overlapVars, measureVars,
                   codecVars>>

NextTransform == TransformPointForm \/ TransformCenterSize

(***************************************************************************)
(* encode followed by decode on the same priors and variances              *)
(* (box_utils.py, lines 124-167).  The matched boxes are the corner-form   *)
(* boxes of the grid (some of width or height 0), the corner forms of the  *)
(* priors, and a box whose corners are the wrong way round.                *)
(***************************************************************************)
CodecPriors == {<<1, 1, 2, 2>>, <<2, 1, 4, 2>>, <<1, 2, 1, 3>>}
CornerOf(prior) == point_form(<<prior>>)[1]
InvertedBox == <<2, 0, 1, 2>>
CodecMatched ==
    GridBoxes \cup {CornerOf(p) : p \in {<<1, 1, 2, 2>>, <<2, 1, 4, 2>>}}
              \cup {InvertedBox}
VarianceSets == {Variances, <<Quot(1, 2), Quot(1, 1)>>}
PriorCounts == {1, 2}

InitCodec ==
    /\ k_pc = "encode"
    /\ \E n \in PriorCounts : k_priors \in [1..n -> CodecPriors]
    /\ k_matched \in [DOMAIN k_priors -> CodecMatched]
    /\ k_variances \in VarianceSets
    /\ k_loc = <<>>
    /\ k_decoded = <<>>

CodecEncode ==
    /\ k_pc = "encode"
    /\ k_loc' = encode(k_matched, k_priors, k_variances)
    /\ k_pc' = "decode"
    /\ UNCHANGED <<k_matched, k_priors, k_variances, k_decoded>>
    /\ UNCHANGED <<matchVars, nmsVars, evalVars, overlapVars, measureVars,
                   transformVars>>

CodecDecode ==
    /\ k_pc = "decode"
    /\ k_decoded' = decode(k_loc, k_priors, k_variances)
    /\ k_pc' = "done"
    /\ UNCHANGED <<k_matched, k_priors, k_variances, k_loc>>
    /\ UNCHANGED <<matchVars, nmsVars, evalVars, overlapVars, measureVars,
                   transformVars>>

NextCodec == CodecEncode \/ CodecDecode

\* nms() called with any number of boxes and any number of scores
InitNmsAnyLength ==
    /\ n_pc = "start"
    /\ boxes \in SeqsUpTo(NmsBoxes, 0, MaxCand)
    /\ scores \in SeqsUpTo(Scores, 0, MaxCand)
    /\ overlap \in Overlaps
    /\ top_k \in 1..MaxTopK
    /\ keep = <<>>
    /\ count = 0
    /\ n_idx = <<>> /\ n_pool = <<>>
    /\ n_ret = <<>>

(***************************************************************************)
(* Specifications: one per operation; the other operations' variables rest.*)
(***************************************************************************)
IdleMatch ==
    /\ m_pc = "idle"
    /\ truths = <<>> /\ labels = <<>> /\ priors = <<>> /\ threshold = Zero
    /\ overlaps = <<>>
    /\ best_prior_overlap = <<>> /\ best_prior_idx = <<>>
    /\ best_truth_overlap = <<>> /\ best_truth_idx = <<>>
    /\ col_argmax = <<>>
    /\ j = 0
    /\ matches = <<>> /\ conf = <<>>
    /\ visualize = FALSE /\ idx = 1
    /\ loc_t = <<>> /\ conf_t = <<>>
    /\ m_ret = <<>>

IdleNms ==
    /\ n_pc = "idle"
    /\ boxes = <<>> /\ scores = <<>>
    /\ overlap = Zero /\ top_k = 1
    /\ keep = <<>> /\ count = 0 /\ n_idx = <<>> /\ n_pool = <<>>
    /\ n_ret = <<>>

IdleEvaluate ==
    /\ e_pc = "idle"
    /\ e_nimg = 0 /\ e_w = 0 /\ e_h = 0 /\ e_threshold = Zero
    /\ e_i = 0 /\ e_j = 1
    /\ e_gt_boxes = <<>>
    /\ accu = <<>> /\ pre = <<>> /\ rec = <<>> /\ f1 = <<>>
    /\ e_ret = <<>>

IdleOverlap ==
    /\ o_pc = "idle"
    /\ o_box_a = <<>> /\ o_box_b = <<>> /\ o_jaccard = <<>> /\ o_iou = Zero

IdleMeasure ==
    /\ ms_pc = "idle"
    /\ ms_pred_boxes = <<>> /\ ms_gt_boxes = <<>>
    /\ ms_width = 0 /\ ms_height = 0
    /\ ms_ret = <<>>

IdleTransform ==
    /\ t_pc = "idle"
    /\ t_boxes = <<>> /\ t_point = <<>> /\ t_center = <<>>

IdleCodec ==
    /\ k_pc = "idle"
    /\ k_matched = <<>> /\ k_priors = <<>> /\ k_variances = <<>>
    /\ k_loc = <<>> /\ k_decoded = <<>>

IdlePure == IdleMeasure /\ IdleTransform /\ IdleCodec
IdleCalls == IdleMatch /\ IdleNms /\ IdleEvaluate /\ IdleOverlap

MatchInit == InitMatch /\ IdleNms /\ IdleEvaluate /\ IdleOverlap /\ IdlePure
NmsInit == InitNms /\ IdleMatch /\ IdleEvaluate /\ IdleOverlap /\ IdlePure
EvaluateInit == InitEvaluate /\ IdleMatch /\ IdleNms /\ IdleOverlap /\ IdlePure
OverlapInit == InitOverlap /\ IdleMatch /\ IdleNms /\ IdleEvaluate /\ IdlePure

MeasureInit == InitMeasure /\ IdleCalls /\ IdleTransform /\ IdleCodec
TransformInit == InitTransform /\ IdleCalls /\ IdleMeasure /\ IdleCodec
CodecInit == InitCodec /\ IdleCalls /\ IdleMeasure /\ IdleTransform

SpecMeasure == MeasureInit /\ [][NextMeasure]_vars
SpecTransform == TransformInit /\ [][NextTransform]_vars
SpecCodec == CodecInit /\ [][NextCodec]_vars
SpecMatch == MatchInit /\ [][NextMatch]_vars
SpecNms == NmsInit /\ [][NextNms]_vars
SpecEvaluate == EvaluateInit /\ [][NextEvaluate]_vars
SpecOverlap == OverlapInit /\ [][NextOverlap]_vars

\* nms() and match() on arguments whose lengths need not agree
MismatchInit ==
    \/ InitNmsAnyLength /\ IdleMatch /\ IdleEvaluate /\ IdleOverlap /\ IdlePure
    \/ InitMatchAnyWidth /\ IdleNms /\ IdleEvaluate /\ IdleOverlap /\ IdlePure
NextMismatch == NextNms \/ NextMatch
SpecMismatch == MismatchInit /\ [][NextMismatch]_vars

Init ==
    \/ MatchInit \/ NmsInit \/ EvaluateInit \/ OverlapInit
    \/ MeasureInit \/ TransformInit \/ CodecInit

Next ==
    \/ NextMatch \/ NextNms \/ NextEvaluate \/ NextOverlap
    \/ NextMeasure \/ NextTransform \/ NextCodec

Spec == Init /\ [][Next]_vars

(***************************************************************************)
(* Properties of the matcher, checked under SpecMatch.  Ground truths and  *)
(* priors are numbered from 1 here and from 0 in the code.                 *)
(***************************************************************************)
MatchLoopOver == \/ m_pc = "loop" /\ j > num_gt
                 \/ m_pc \in {"return", "done"}
BestPriorOf(p) == {g \in 1..num_gt : best_prior_idx[g] = p}
MaxOf(S) == CHOOSE x \in S : \A y \in S : y <= x

\* C1: after match() on num_gt >= 1 ground truths, every ground-truth index
\* appears at least once in the final best_truth_idx, also when several
\* ground truths have the same best prior.
C1_EveryTruthAssigned ==
    (MatchLoopOver /\ num_gt >= 1) =>
        \A g \in 1..num_gt : \E p \in 1..num_priors : best_truth_idx[p] = g

\* C2: the confidence target of prior p is 0 exactly when the column-wise
\* maximum of the overlaps of p, as computed before the forced-coverage
\* override, is below the threshold; otherwise it is the label of the
\* post-override best_truth_idx[p], plus one.
C2_ConfTarget ==
    m_pc \in {"return", "done"} =>
        \A p \in 1..num_priors :
            LET below == \A g \in 1..num_gt : Lt(overlaps[g][p], threshold)
            IN  /\ conf[p] = 0 <=> below
                /\ ~below => conf[p] = labels[best_truth_idx[p]] + 1

\* C2, its case: a prior that the override gave to a ground truth other
\* than its column-wise best one, and that is background all the same
C2_Witness ==
    /\ m_pc = "done"
    /\ \E p \in 1..num_priors :
          /\ best_prior_idx[best_truth_idx[p]] = p
          /\ col_argmax[p] # best_truth_idx[p]
          /\ Lt(best_truth_overlap[p], threshold)
          /\ conf[p] = 0

\* C3: the override runs in ground-truth order: once the loop has handled
\* the ground truths before j, a prior that is the best prior of some of
\* them holds the largest of them; at the end a prior that is the best prior
\* of a ground truth holds the largest such ground truth, and every other
\* prior keeps its column-wise argmax.
C3_LaterTruthWins ==
    /\ m_pc = "loop" =>
          \A p \in 1..num_priors :
              LET done == {g \in BestPriorOf(p) : g < j}
              IN  done # {} => best_truth_idx[p] = MaxOf(done)
    /\ MatchLoopOver =>
          \A p \in 1..num_priors :
              best_truth_idx[p] = IF BestPriorOf(p) # {}
                                  THEN MaxOf(BestPriorOf(p))
                                  ELSE col_argmax[p]

\* C3, its case: two ground truths share their best prior, which the
\* column-wise maximum had given to the earlier one
C3_Witness ==
    /\ m_pc = "done"
    /\ \E p \in 1..num_priors :
          /\ Cardinality(BestPriorOf(p)) >= 2
          /\ col_argmax[p] # MaxOf(BestPriorOf(p))
          /\ best_truth_idx[p] = MaxOf(BestPriorOf(p))
    /\ \E p \in 1..num_priors : BestPriorOf(p) = {}

\* C9: match() with no ground truth and a non-empty prior set does not raise.
C9_NoTruthNoRaise ==
    (num_gt = 0 /\ num_priors >= 1) => m_pc # "raised"

(***************************************************************************)
(* Properties of nms(), checked under SpecNms.  NmsReturned holds once     *)
(* line 248 has returned (keep, count).                                    *)
(***************************************************************************)
NmsReturned == n_pc = "done" /\ Len(n_ret) = 2
num_cand == Len(scores)
\* candidate i is among the top_k highest scores: fewer than top_k
\* candidates score strictly higher
InTopK(i) ==
    Cardinality({k \in 0..(num_cand - 1) : ScoreOf(k) > ScoreOf(i)}) < top_k

\* C4 as stated: every kept index is among the top_k highest scores, count
\* is at most min(top_k, number of candidates), and the kept index list has
\* length at most top_k.
C4_Original ==
    NmsReturned =>
        /\ \A k \in 1..n_ret[2] : InTopK(n_ret[1][k])
        /\ n_ret[2] <= Min2(top_k, num_cand)
        /\ Len(n_ret[1]) <= top_k

\* C4 as amended: the first count entries of keep are among the top_k
\* highest scores and count is at most min(top_k, number of candidates);
\* the returned keep has one entry per candidate, zero past the first count
\* entries.
C4_TopKOnly ==
    NmsReturned =>
        /\ \A k \in 1..n_ret[2] : InTopK(n_ret[1][k])
        /\ n_ret[2] <= Min2(top_k, num_cand)
        /\ Len(n_ret[1]) = num_cand
        /\ \A k \in (n_ret[2] + 1)..num_cand : n_ret[1][k] = 0

\* C4, its case: more candidates than top_k, all of the top_k kept
C4_Witness ==
    /\ NmsReturned
    /\ num_cand > top_k
    /\ n_ret[2] = top_k
    /\ top_k >= 2

\* C5: the first kept index is a highest-scoring candidate of the whole
\* input, the first count kept indices are pairwise distinct, and their
\* scores do not increase along the list.
C5_SelectionOrder ==
    NmsReturned =>
        LET kp == n_ret[1]
            cnt == n_ret[2]
        IN  /\ cnt >= 1
            /\ \A k \in 0..(num_cand - 1) : ScoreOf(k) <= ScoreOf(kp[1])
            /\ \A a, b \in 1..cnt : a < b =>
                  /\ kp[a] # kp[b]
                  /\ ScoreOf(kp[a]) >= ScoreOf(kp[b])

\* C5, its case: three candidates or more, two kept of different scores
C5_Witness ==
    /\ NmsReturned
    /\ n_ret[2] >= 2
    /\ ScoreOf(n_ret[1][1]) > ScoreOf(n_ret[1][2])
    /\ num_cand >= 3

\* C6: on an empty candidate set nms() returns an empty kept set together
\* with count 0, in the (kept, count) shape, and does not raise.
C6_EmptyReturnsPair ==
    (n_pc = "done" /\ Len(boxes) = 0 /\ Len(scores) = 0) => n_ret = <<<<>>, 0>>

(***************************************************************************)
(* Properties of the overlap of a pair, checked under SpecOverlap.         *)
(***************************************************************************)
PairArea(b) == (b[3] - b[1]) * (b[4] - b[2])
PairInter(a, b) ==
    LET w == Min2(a[3], b[3]) - Max2(a[1], b[1])
        h == Min2(a[4], b[4]) - Max2(a[2], b[2])
    IN  IF w > 0 /\ h > 0 THEN w * h ELSE 0
PairUnion(a, b) == PairArea(a) + PairArea(b) - PairInter(a, b)

\* C7: for valid corner-form boxes with positive union the jaccard overlap
\* lies in [0,1], and the overlap of a box of positive area with itself is 1.
C7_JaccardRange ==
    o_pc \in {"nms", "done"} =>
        LET a == o_box_a[1]
            b == o_box_b[1]
            q == o_jaccard[1][1]
        IN  /\ PairUnion(a, b) > 0 => (Le(Zero, q) /\ Le(q, One))
            /\ (a = b /\ PairArea(a) > 0) => QEq(q, One)

\* C7, its case: two different boxes that overlap in part
C7_Witness ==
    /\ o_pc = "done"
    /\ o_box_a # o_box_b
    /\ Lt(Zero, o_jaccard[1][1])
    /\ Lt(o_jaccard[1][1], One)

\* C8: when the union of the pair is zero, jaccard returns 0 for it, and so
\* does the IoU nms computes.
C8_ZeroUnionIsZero ==
    (o_pc = "done" /\ PairUnion(o_box_a[1], o_box_b[1]) = 0) =>
        /\ QEq(o_jaccard[1][1], Zero)
        /\ QEq(o_iou, Zero)

(***************************************************************************)
(* Properties of evaluate(), checked under SpecEvaluate.                   *)
(***************************************************************************)
\* C10: evaluate() returns its averages without raising for every batch,
\* also when no class of any image had a result appended.
C10_EvaluateNoRaise == e_pc # "raised"

(***************************************************************************)
(* Arguments of disagreeing lengths, checked under SpecMismatch.           *)
(***************************************************************************)
\* C11: nms() on boxes and scores of different lengths, and match() writing
\* a slot whose width differs from the number of priors, raise an error:
\* neither completes normally on such arguments.
C11_MismatchRaises ==
    /\ n_pc \in {"return", "done"} => Len(boxes) = Len(scores)
    /\ (m_pc = "done" /\ ~visualize) => Len(loc_t[idx]) = num_priors

(***************************************************************************)
(* Properties of measure(), checked under SpecMeasure.                     *)
(***************************************************************************)
\* C12: measure() returns (1.0, 1.0, 1.0) when the predictions and the
\* ground truths are both empty and (0.0, 0.0, 0.0) when exactly one of them
\* is empty, whatever the width and the height.
C12_EmptyMeasure ==
    ms_pc = "done" =>
        /\ (Len(ms_pred_boxes) = 0 /\ Len(ms_gt_boxes) = 0)
              => ms_ret = <<One, One, One>>
        /\ ((Len(ms_pred_boxes) = 0) # (Len(ms_gt_boxes) = 0))
              => ms_ret = <<Zero, Zero, Zero>>

C12_Witness ==
    /\ ms_pc = "done"
    /\ Len(ms_pred_boxes) = 1 /\ Len(ms_gt_boxes) = 0
    /\ ms_width # ms_height /\ ms_width > 0
    /\ ms_ret = <<Zero, Zero, Zero>>

(***************************************************************************)
(* Properties of the coordinate transform, checked under SpecTransform.    *)
(***************************************************************************)
PositiveSize(center_box) == center_box[3] > 0 /\ center_box[4] > 0

\* C13: for center-form boxes of positive width and height,
\* center_size(point_form(B)) equals B, and both transforms return as many
\* boxes as they are given, the k-th result being the transform of the k-th
\* box.
C13_RoundTrip ==
    (t_pc = "done" /\ \A k \in DOMAIN t_boxes : PositiveSize(t_boxes[k])) =>
        /\ t_center = t_boxes
        /\ Len(t_point) = Len(t_boxes) /\ Len(t_center) = Len(t_point)
        /\ \A k \in DOMAIN t_boxes :
              /\ t_point[k] = point_form(<<t_boxes[k]>>)[1]
              /\ t_center[k] = center_size(<<t_point[k]>>)[1]

C13_Witness ==
    /\ t_pc = "done"
    /\ Len(t_boxes) = 2
    /\ \A k \in DOMAIN t_boxes : PositiveSize(t_boxes[k])
    /\ t_boxes[1] # t_boxes[2]
    /\ t_boxes[1][3] # t_boxes[1][4]
    /\ t_point # t_boxes
    /\ t_center = t_boxes

(***************************************************************************)
(* Properties of the encoder and the decoder, checked under SpecCodec.     *)
(***************************************************************************)
PositiveCorners(m) == m[3] > m[1] /\ m[4] > m[2]
SameBox(decoded, m) == \A c \in 1..4 : QEq(decoded[c], Quot(m[c], 1))
\* log(r) / over is 0 exactly when r = 1
ZeroSizeOffset(t) == QEq(t.log, One) /\ ~IsNaN(t.over) /\ t.over.n # 0
ZeroOffset(l) ==
    /\ QEq(l.cx, Zero) /\ QEq(l.cy, Zero)
    /\ ZeroSizeOffset(l.w) /\ ZeroSizeOffset(l.h)

\* C14: for a corner-form matched box M of positive width and height and a
\* center-form prior P of positive size, with positive variances V,
\* decode(encode(M, P, V), P, V) is M; when M is the corner form of P the
\* encoded offset is (0, 0, 0, 0).
C14_DecodeInvertsEncode ==
    k_pc = "done" =>
        \A k \in DOMAIN k_priors :
            /\ PositiveCorners(k_matched[k]) => SameBox(k_decoded[k], k_matched[k])
            /\ (PositiveSize(k_priors[k]) /\ k_matched[k] = CornerOf(k_priors[k])
                 /\ center_size(<<k_matched[k]>>)[1] = k_priors[k])
                  => ZeroOffset(k_loc[k])

C14_Witness ==
    /\ k_pc = "done"
    /\ Len(k_priors) = 2
    /\ k_matched[1] = CornerOf(k_priors[1])
    /\ center_size(<<k_matched[1]>>)[1] = k_priors[1]
    /\ ZeroOffset(k_loc[1])
    /\ PositiveCorners(k_matched[2])
    /\ k_matched[2] # CornerOf(k_priors[2])
    /\ ~ZeroOffset(k_loc[2])
    /\ SameBox(k_decoded[1], k_matched[1])
    /\ SameBox(k_decoded[2], k_matched[2])

(***************************************************************************)
(* Properties of the suppression, checked under SpecNms.  Candidates are   *)
(* numbered from 0 as in the code; n_pool lists the top_k candidates in    *)
(* ascending order of score, so the loop selects from its end.             *)
(***************************************************************************)
Kept == {keep[a] : a \in 1..count}
PoolPos(c) == CHOOSE q \in 1..Len(n_pool) : n_pool[q] = c
\* the kept candidates that were selected before candidate c came up
SelectedBefore(c) == {i \in Kept : PoolPos(i) > PoolPos(c)}

\* C15: after nms() every top_k candidate that is not kept has an IoU
\* strictly greater than the threshold with some kept box selected before
\* it, whose score is at least as high; and a top_k candidate whose IoU with
\* every box selected before it is at most the threshold is kept.
C15_DroppedOnlyForOverlap ==
    NmsReturned =>
        \A q \in 1..Len(n_pool) :
            LET c == n_pool[q]
            IN  /\ c \notin Kept =>
                      \E i \in SelectedBefore(c) :
                          /\ Gt(NmsIoU(BoxOf(i), BoxOf(c)), overlap)
                          /\ ScoreOf(i) >= ScoreOf(c)
                /\ (\A i \in SelectedBefore(c) :
                        Le(NmsIoU(BoxOf(i), BoxOf(c)), overlap))
                      => c \in Kept

\* C16: at every iteration of the loop of nms() and at its return, any two
\* distinct kept boxes have an IoU of at most the threshold, and every
\* candidate still in the pool and not kept has an IoU of at most the
\* threshold with every kept box.
C16_KeptApart ==
    n_pc \in {"loop", "return", "done"} =>
        /\ \A a, b \in 1..count : a # b =>
              Le(NmsIoU(BoxOf(keep[a]), BoxOf(keep[b])), overlap)
        /\ \A q \in 1..Len(n_idx) : n_idx[q] \notin Kept =>
              \A i \in Kept : Le(NmsIoU(BoxOf(i), BoxOf(n_idx[q])), overlap)

\* C16, its case: a second box was kept that overlaps the first one below
\* the threshold, after the pool was filtered against the first
C16_Witness ==
    /\ n_pc = "return"
    /\ count = 2
    /\ Gt(NmsIoU(BoxOf(keep[1]), BoxOf(keep[2])), Zero)
    /\ Le(NmsIoU(BoxOf(keep[1]), BoxOf(keep[2])), overlap)
    /\ num_cand = 3

(***************************************************************************)
(* The frame of match(), checked under SpecMatch.                          *)
(***************************************************************************)
OtherSlotsKept(i) ==
    \A s \in Slots \ {i} : loc_t'[s] = loc_t[s] /\ conf_t'[s] = conf_t[s]

\* C17: no step of match() changes truths, labels or priors; the buffers
\* loc_t and conf_t change in one step only, the write at the end of a call
\* in normal mode, which sets slot idx of both to the encoded offsets and
\* the confidence targets and leaves every other slot as it was; a call in
\* diagnostics mode returns the overlap matrix and the confidence vector and
\* leaves both buffers as they were.
C17_Frame ==
    [][/\ truths' = truths /\ labels' = labels /\ priors' = priors
       /\ (loc_t' # loc_t \/ conf_t' # conf_t) =>
             (m_pc = "return" /\ m_pc' = "done" /\ ~visualize')
       /\ (m_pc = "return" /\ m_pc' = "done" /\ ~visualize') =>
             /\ loc_t'[idx'] = encode(matches, priors, Variances)
             /\ conf_t'[idx'] = conf
             /\ OtherSlotsKept(idx')
       /\ (m_pc = "return" /\ m_pc' = "done" /\ visualize') =>
             /\ m_ret' = <<overlaps, conf>>
             /\ loc_t' = loc_t /\ conf_t' = conf_t
       /\ m_pc = "done" => UNCHANGED matchVars]_vars

\* C17, its case: a call in normal mode wrote the second slot for two
\* priors or more and left the first one unwritten
C17_Witness ==
    /\ m_pc = "done" /\ ~visualize /\ idx = 2
    /\ num_priors >= 2 /\ num_gt >= 1
    /\ conf_t[2] = conf /\ conf_t[2] # EmptyConfSlot(num_priors)
    /\ loc_t[2] # EmptyLocSlot(num_priors)
    /\ loc_t[1] = EmptyLocSlot(num_priors)
    /\ conf_t[1] = EmptyConfSlot(num_priors)

====
